---- MODULE Spec2Model ----
(***************************************************************************)
(* A model of chatlab's Chat (src/chatlab/chat.py): the conversation       *)
(* history, submit with its throttling retry and its continuation calls,   *)
(* the stream demultiplexer __process_stream, the single-shot extractor    *)
(* __process_full_completion, and append.                                  *)
(*                                                                         *)
(* Text (message content, argument fragments) is a sequence of one-letter  *)
(* strings, so that concatenation is \o and the empty string is << >>.     *)
(* An Optional value is None (<< >>) or Some(v) (<<v>>); an Optional       *)
(* string-typed field (id, name, finish_reason) uses the string NoneStr.   *)
(***************************************************************************)
EXTENDS Naturals, Sequences, FiniteSets, TLC

\* ------------------------------------------------------------------ bounds
\* Events one submit call chain may consume from its streams.
MaxEvents == 3
\* submit invocations of one chain: the outermost call, retries, continuations.
MaxCalls == 3
\* Largest positional index a tool-call delta carries.
MaxIndex == 1
\* Retries after throttling in one chain.
MaxRetries == 1
\* Length of the history the append calls may build.
MaxHistory == 6

\* asyncio.sleep(5) of the throttling handler.
BackoffDelay == 5

\* ------------------------------------------------------------ optionals
None == << >>
Some(v) == <<v>>
NoneStr == "None"

\* ------------------------------------------------------------- messages
\* messaging.human: a string wrapped as a user message.
human(s) == [role |-> "user", content |-> s]

\* AssistantMessageView.get_message: the accumulated text as one message.
get_message(view) == [role |-> "assistant", content |-> view.content]

\* AssistantMessageView.append: concatenates the fragment.
view_append(view, fragment) == [view EXCEPT !.content = @ \o fragment]

\* AssistantMessageView(): nothing accumulated, not finished.
NewAssistantView == [content |-> << >>, finished |-> FALSE]

\* ToolArguments(id, name, arguments=""): one call being reconstructed.
ToolArguments(id, name, arguments) == [id |-> id, name |-> name, arguments |-> arguments]

\* ToolArguments.append_arguments: concatenates the fragment.
append_arguments(call, fragment) == [call EXCEPT !.arguments = @ \o fragment]

\* ToolArguments.get_function_message: the assistant's legacy call request.
get_function_message(call) ==
    [role |-> "assistant", function_call |-> [name |-> call.name, arguments |-> call.arguments]]

\* ToolArguments.call: the registry's answer to one call (value or error),
\* a function of the call's name and argument text.
call_result(call) == [of |-> call, value |-> <<"r">> \o call.arguments]

\* ToolArgumentsResult.get_function_called_message: the legacy result message.
get_function_called_message(called) ==
    [role |-> "function", name |-> called.of.name, content |-> called.value]

\* ToolArgumentsResult.get_tool_called_message: the tool result message.
get_tool_called_message(called) ==
    [role |-> "tool", name |-> called.of.name, tool_call_id |-> called.of.id,
     content |-> called.value]

\* messaging.assistant_tool_calls: the assistant's tool-call request message.
assistant_tool_calls(calls) == [role |-> "assistant", tool_calls |-> calls]

\* A submit/append argument: a Python str, or a message passed through.
Str(s) == [isStr |-> TRUE, text |-> s]
Obj(m) == [isStr |-> FALSE, msg |-> m]

\* The isinstance(message, str) branch of append and submit.
Wrap(input) == IF input.isStr THEN human(input.text) ELSE input.msg

RECURSIVE WrapAll(_)
\* The for loop over *messages: each input wrapped, in argument order.
WrapAll(inputs) ==
    IF inputs = << >> THEN << >>
    ELSE <<Wrap(Head(inputs))>> \o WrapAll(Tail(inputs))

RECURSIVE AppendToDedup(_, _)
\* An append that skips a message the history already holds.
AppendToDedup(history, inputs) ==
    IF inputs = << >> THEN history
    ELSE LET m == Wrap(Head(inputs)) IN
         AppendToDedup(IF \E i \in 1..Len(history) : history[i] = m THEN history
                       ELSE Append(history, m),
                       Tail(inputs))

\* Chat.append: every input is added at the end of the history.
AppendTo(history, inputs) == history \o WrapAll(inputs)

\* --------------------------------------------------------- stream events
\* One ChatCompletionChunk: its choices (none, or the first one), the
\* choice's delta and its finish_reason.
Chunk(delta, reason) == [choices |-> 1, delta |-> delta, finish_reason |-> reason]
NoChoices == [choices |-> 0, delta |-> None, finish_reason |-> NoneStr]

\* A delta carries content, tool_calls and function_call, each Optional.
TextDelta(s) == Some([content |-> Some(s), tool_calls |-> None, function_call |-> None])
ToolDelta(deltas) == Some([content |-> None, tool_calls |-> Some(deltas), function_call |-> None])
LegacyDelta(name, arguments) ==
    Some([content |-> None, tool_calls |-> None,
          function_call |-> Some([name |-> name, arguments |-> arguments])])
EmptyDelta == Some([content |-> None, tool_calls |-> None, function_call |-> None])

\* One element of delta.tool_calls: index, id and an Optional function payload.
TC(index, id, name, arguments) ==
    [index |-> index, id |-> id, function |-> Some([name |-> name, arguments |-> arguments])]
TCNoFunction(index) == [index |-> index, id |-> NoneStr, function |-> None]

\* The first delta of a call (id, name, first fragment), a continuation
\* (fragment only), and a first delta that lacks its id.
TCCreate(i) == TC(i, "id", "f", Some(<<"x">>))
TCCont(i) == TC(i, NoneStr, NoneStr, Some(<<"y">>))
TCNoId(i) == TC(i, NoneStr, "f", Some(<<"x">>))

Indices == 0..MaxIndex

ToolDeltaLists ==
    {<<TCCreate(i)>> : i \in Indices}
    \cup {<<TCCont(0)>>, <<TCNoId(0)>>, <<TCNoFunction(0)>>, <<TCCreate(0), TCCreate(1)>>}

\* The deltas of the events with no finish_reason.
Deltas ==
    {TextDelta(s) : s \in {<< >>, <<"a">>, <<"b">>}}
    \cup {ToolDelta(l) : l \in ToolDeltaLists}
    \cup {LegacyDelta("f", None), LegacyDelta(NoneStr, Some(<<"x">>))}

\* The deltas of the events that carry a finish_reason.
LastDeltas == {None, EmptyDelta, TextDelta(<<"a">>), ToolDelta(<<TCCont(0)>>)}

\* The terminal reasons of the service, and one it does not document.
FinishReasons ==
    {"stop", "length", "max_tokens", "content_filter", "function_call", "tool_calls", "weird"}

Events ==
    {NoChoices} \cup {Chunk(d, NoneStr) : d \in Deltas}
    \cup {Chunk(d, r) : d \in LastDeltas, r \in {"stop", "function_call", "tool_calls"}}
    \cup {Chunk(EmptyDelta, r) : r \in FinishReasons}
    \cup {Chunk(LegacyDelta("f", None), "function_call")}

\* What an event carries, as the service sent it (not as the code read it).
EventKind(ev) ==
    IF ev.choices = 0 THEN "nochoices"
    ELSE IF ev.delta = None THEN "nodelta"
    ELSE IF ev.delta[1].content # None THEN "text"
    ELSE IF ev.delta[1].tool_calls # None THEN "tool"
    ELSE IF ev.delta[1].function_call # None THEN "legacy"
    ELSE "empty"

\* ------------------------------------------------- the stream demultiplexer
\* Flush that finishes the view and drops its text.
FlushDropsText(view) == [view |-> [view EXCEPT !.finished = TRUE], out |-> << >>]

\* Flush that emits the view's message even when it holds no text.
FlushEmptyToo(view) ==
    IF ~view.finished
    THEN [view |-> [view EXCEPT !.finished = TRUE], out |-> <<get_message(view)>>]
    ELSE [view |-> view, out |-> << >>]

\* Lines 153-159 and 189-194: the first tool-call or named legacy delta
\* finishes the assistant view and flushes its text, if any, as a message.
Flush(view) ==
    IF ~view.finished
    THEN [view |-> [view EXCEPT !.finished = TRUE],
          out |-> IF view.content # << >> THEN <<get_message(view)>> ELSE << >>]
    ELSE [view |-> view, out |-> << >>]

RECURSIVE ToolLoop(_, _)
\* Lines 160-184: each tool-call delta either continues the call at its
\* index or, with id, name and arguments all present, creates a new call at
\* the end of the list.
ToolLoop(calls, deltas) ==
    IF deltas = << >> THEN [calls |-> calls, err |-> NoneStr]
    ELSE LET tool_call == Head(deltas) IN
         IF tool_call.function = None
         THEN [calls |-> calls, err |-> "ToolCallWithoutFunction"]
         ELSE LET fn == tool_call.function[1] IN
              IF tool_call.index < Len(calls)
              THEN ToolLoop(IF fn.arguments # None
                            THEN [calls EXCEPT ![tool_call.index + 1] =
                                      append_arguments(@, fn.arguments[1])]
                            ELSE calls,
                            Tail(deltas))
              ELSE IF fn.name # NoneStr /\ fn.arguments # None /\ tool_call.id # NoneStr
              THEN ToolLoop(Append(calls, ToolArguments(tool_call.id, fn.name, fn.arguments[1])),
                            Tail(deltas))
              ELSE ToolLoop(calls, Tail(deltas))

\* Lines 186-203: a legacy function-call delta. A name creates the single
\* call (id "TBD"), after the flush; arguments are appended to it, and are a
\* protocol violation before any name.
LegacyStep(view, fview, function_call) ==
    LET flushed == IF function_call.name # NoneStr THEN Flush(view)
                   ELSE [view |-> view, out |-> << >>]
        named == IF function_call.name # NoneStr
                 THEN Some(ToolArguments("TBD", function_call.name, << >>))
                 ELSE fview
    IN  IF function_call.arguments # None /\ named = None
        THEN [view |-> flushed.view, out |-> flushed.out, fview |-> named,
              err |-> "ArgumentsWithoutName"]
        ELSE [view |-> flushed.view, out |-> flushed.out,
              fview |-> IF function_call.arguments # None
                        THEN Some(append_arguments(named[1], function_call.arguments[1]))
                        ELSE named,
              err |-> NoneStr]

\* WrapUp with its test inverted.
WrapUpInverted(view) == IF view.finished THEN <<get_message(view)>> ELSE << >>

\* Lines 208-212: after the loop, a view that was never finished is turned
\* into a message.
WrapUp(view) == IF ~view.finished THEN <<get_message(view)>> ELSE << >>

\* ------------------------------------------------------------------ state
VARIABLES
    messages,        \* Chat.messages: the conversation history
    pc,              \* where the submit call chain stands
    args,            \* *messages of the running submit call
    stream,          \* stream= of the running submit call
    full_messages,   \* the message list built for the request
    assistant_view,  \* __process_stream's AssistantMessageView
    function_view,   \* the legacy call (function_call_request once returned)
    tool_calls,      \* the tool calls (tool_arguments once returned)
    finish_reason,   \* the terminal reason of the turn, NoneStr before it
    cur,             \* the tool-call deltas of the event being processed
    toolIdx,         \* position of the for loop over tool_arguments
    function_called, \* the result of the call just awaited
    err,             \* the exception that left submit, NoneStr if none
    invoked,         \* the calls the registry has been asked to run, in order
    chain,           \* what the call chain did so far (observation only)
    turn             \* what the running turn received so far (observation only)

vars == <<messages, pc, args, stream, full_messages, assistant_view, function_view,
          tool_calls, finish_reason, cur, toolIdx, function_called, err, invoked,
          chain, turn>>

locals == <<assistant_view, function_view, tool_calls, finish_reason, cur, toolIdx,
            function_called>>

\* The arguments the callers of submit and append pass.
UserMsg == [role |-> "user", content |-> <<"u">>]
SystemMsg == [role |-> "system", content |-> <<"s">>]
InputLists == {<<Str(<<"q">>)>>, <<Obj(UserMsg), Str(<<"q">>)>>}

NoFragments == [i \in Indices |-> << >>]

NoParent == [reason |-> NoneStr, legacy |-> None, tools |-> << >>, calls0 |-> 0]

NewTurn(history) ==
    [callHist |-> history,   \* the history when submit was entered
     base |-> 0,             \* length of the history once the inputs are in
     accepted |-> FALSE,     \* the request of this call was accepted
     textLog |-> << >>,      \* the text fragments received, concatenated
     fragLog |-> NoFragments,\* per index, the argument fragments received
     firstSeen |-> << >>,    \* the indices in order of first appearance
     kinds |-> {},           \* the kinds of events received
     complete |-> TRUE,      \* every index came first with id, name and arguments
     textAtTool |-> None,    \* the text received before the first tool-call delta
     kindsAtTool |-> {},     \* the kinds received before the first tool-call delta
     ended |-> FALSE,        \* the stream ended without a terminal reason
     marker |-> NoneStr,     \* the first terminal reason an event carried
     late |-> 0,             \* events consumed after the one that carried it
     legacyNames |-> 0,      \* legacy deltas received that carry a name
     textAtCall |-> None,    \* the text received before the first tool-call delta
                             \* or named legacy delta, whichever came first
     legacyLog |-> << >>,    \* the legacy argument fragments received, concatenated
     violation |-> NoneStr,  \* the protocol violation the events received contain
     full |-> None,          \* the response received at once (non-streaming)
     origin |-> "user",      \* who called submit: user, retry or continuation
     invoked0 |-> 0,         \* calls invoked before this submit was entered
     calls0 |-> 0,           \* submit invocations so far, this one included
     parent |-> NoParent]    \* the turn of the call that made this call

NewChain ==
    [calls |-> 0,            \* submit invocations: outermost, retries, continuations
     retries |-> 0,          \* retries after throttling
     requestThrottles |-> 0, \* throttling signalled when the request was issued
     streamThrottles |-> 0,  \* throttling signalled while the stream was consumed
     continuations |-> 0,    \* continuation calls (no new inputs)
     clock |-> 0,            \* time slept
     events |-> 0,           \* events consumed
     history0 |-> << >>,     \* the history when the outermost submit was entered
     inputs0 |-> << >>,      \* the inputs of the outermost submit
     lastArgs |-> << >>,     \* the arguments of the previous submit invocation
     notice |-> NoneStr]     \* the notice printed on return

Init ==
    /\ messages = <<SystemMsg>>
    /\ pc = "idle"
    /\ args = << >>
    /\ stream = TRUE
    /\ full_messages = << >>
    /\ assistant_view = NewAssistantView
    /\ function_view = None
    /\ tool_calls = << >>
    /\ finish_reason = NoneStr
    /\ cur = None
    /\ toolIdx = 0
    /\ function_called = None
    /\ err = NoneStr
    /\ invoked = << >>
    /\ chain = NewChain
    /\ turn = NewTurn(messages)

\* ----------------------------------------------------------------- append
\* The arguments of the append calls: none, one, several, the same twice.
AppendInputs ==
    {<< >>, <<Str(<<"q">>)>>, <<Obj(UserMsg)>>, <<Obj(UserMsg), Str(<<"q">>)>>,
     <<Str(<<"q">>), Str(<<"q">>)>>, <<Obj(UserMsg), Obj(UserMsg)>>,
     <<Str(<<"u">>), Obj(UserMsg), Obj(SystemMsg)>>}

\* Chat.append called by the user (lines 372-386).
AppendCall(inputs) ==
    /\ pc = "idle"
    /\ Len(messages) + Len(inputs) <= MaxHistory
    /\ messages' = AppendTo(messages, inputs)
    /\ chain' = [chain EXCEPT !.lastArgs = inputs]
    /\ UNCHANGED <<pc, args, stream, full_messages, locals, err, invoked, turn>>

\* ----------------------------------------------------------------- submit
\* A message list without the new inputs.
BuildWithoutInputs(history, inputs) == history

\* Lines 272-282: the request's message list is the history followed by the
\* wrapped inputs; the history itself is not touched.
BuildFullMessages(history, inputs) == history \o WrapAll(inputs)

\* Entering submit (lines 256-283), for the outermost call, a retry or a
\* continuation alike: fresh locals, the message list built.
Enter(inputs, streaming, origin) ==
    /\ args' = inputs
    /\ stream' = streaming
    /\ full_messages' = BuildFullMessages(messages, inputs)
    /\ assistant_view' = NewAssistantView
    /\ function_view' = None
    /\ tool_calls' = << >>
    /\ finish_reason' = NoneStr
    /\ cur' = None
    /\ toolIdx' = 0
    /\ function_called' = None
    /\ turn' = [NewTurn(messages) EXCEPT !.origin = origin, !.invoked0 = Len(invoked),
                                         !.calls0 = chain.calls + 1,
                                         !.parent = [reason |-> finish_reason,
                                                     legacy |-> function_view,
                                                     tools |-> tool_calls,
                                                     calls0 |-> turn.calls0]]
    /\ pc' = "request"

\* The user calls submit (or __call__, line 127).
Submit(inputs, streaming) ==
    /\ pc = "idle"
    /\ Enter(inputs, streaming, "user")
    /\ chain' = [chain EXCEPT !.calls = 1, !.history0 = messages, !.inputs0 = inputs,
                              !.lastArgs = inputs]
    /\ UNCHANGED <<messages, err, invoked>>

\* A retry that drops the arguments, as a continuation call does.
RetryWithoutArguments(inputs) == << >>

\* Line 327: the retry passes the arguments of the throttled call.
RetryArguments(inputs) == inputs

\* Line 326: the handler sleeps before it retries.
Sleep(clock) == clock + BackoffDelay

\* Lines 324-329: RateLimitError was raised in the guarded region; sleep,
\* then submit again.
Retry ==
    /\ chain.calls < MaxCalls
    /\ chain.retries < MaxRetries
    /\ Enter(RetryArguments(args), stream, "retry")
    /\ UNCHANGED <<messages, err, invoked>>

\* create raised RateLimitError.
RequestThrottled ==
    /\ pc = "request"
    /\ Retry
    /\ chain' = [chain EXCEPT !.calls = @ + 1, !.retries = @ + 1,
                              !.requestThrottles = @ + 1,
                              !.clock = Sleep(@), !.lastArgs = args]

\* create raised another error: it leaves submit.
RequestFailed ==
    /\ pc = "request"
    /\ pc' = "failed"
    /\ err' = "APIError"
    /\ UNCHANGED <<messages, args, stream, full_messages, locals, invoked, chain, turn>>

\* AcceptInputs that puts the inputs in front of the history.
AcceptInputsInFront(history, inputs) == WrapAll(inputs) \o history

\* Lines 309 and 318: the request was accepted, the inputs join the history.
AcceptInputs(history, inputs) == AppendTo(history, inputs)

RequestAccepted ==
    /\ pc = "request"
    /\ messages' = AcceptInputs(messages, args)
    /\ turn' = [turn EXCEPT !.accepted = TRUE, !.base = Len(messages')]
    /\ pc' = IF stream THEN "stream" ELSE "full"
    /\ UNCHANGED <<args, stream, full_messages, locals, err, invoked, chain>>

\* --------------------------------------------------------- the stream loop
\* The observation of one received event.
RECURSIVE LogFragments(_, _)
LogFragments(log, deltas) ==
    IF deltas = << >> THEN log
    ELSE LET d == Head(deltas)
             frag == IF d.function # None /\ d.function[1].arguments # None
                     THEN d.function[1].arguments[1] ELSE << >>
         IN  LogFragments([log EXCEPT ![d.index] = @ \o frag], Tail(deltas))

Seen(seen, i) == \E k \in 1..Len(seen) : seen[k] = i

RECURSIVE LogFirstSeen(_, _)
LogFirstSeen(seen, deltas) ==
    IF deltas = << >> THEN seen
    ELSE LET i == Head(deltas).index
         IN  LogFirstSeen(IF Seen(seen, i) THEN seen ELSE Append(seen, i), Tail(deltas))

IsComplete(d) ==
    /\ d.function # None
    /\ d.id # NoneStr
    /\ d.function[1].name # NoneStr
    /\ d.function[1].arguments # None

RECURSIVE LogComplete(_, _, _)
LogComplete(ok, seen, deltas) ==
    IF deltas = << >> THEN ok
    ELSE LET d == Head(deltas)
         IN  LogComplete(ok /\ (Seen(seen, d.index) \/ IsComplete(d)),
                         IF Seen(seen, d.index) THEN seen ELSE Append(seen, d.index),
                         Tail(deltas))

NoFunction(deltas) == \E k \in 1..Len(deltas) : deltas[k].function = None

Observe(t, ev) ==
    LET kind == EventKind(ev)
        t1 == [t EXCEPT !.kinds = @ \cup {kind},
                        !.marker = IF @ = NoneStr THEN ev.finish_reason ELSE @,
                        !.late = IF t.marker # NoneStr THEN @ + 1 ELSE @,
                        !.legacyNames =
                            IF kind = "legacy" /\ ev.delta[1].function_call[1].name # NoneStr
                            THEN @ + 1 ELSE @,
                        !.textAtCall =
                            IF /\ @ = None
                               /\ \/ kind = "tool"
                                  \/ /\ kind = "legacy"
                                     /\ ev.delta[1].function_call[1].name # NoneStr
                            THEN Some(t.textLog) ELSE @,
                        !.legacyLog =
                            IF kind = "legacy" /\ ev.delta[1].function_call[1].arguments # None
                            THEN @ \o ev.delta[1].function_call[1].arguments[1] ELSE @,
                        !.violation =
                            IF kind = "tool" /\ NoFunction(ev.delta[1].tool_calls[1])
                            THEN "ToolCallWithoutFunction"
                            ELSE IF /\ kind = "legacy"
                                    /\ ev.delta[1].function_call[1].arguments # None
                                    /\ ev.delta[1].function_call[1].name = NoneStr
                                    /\ t.legacyNames = 0
                            THEN "ArgumentsWithoutName"
                            ELSE @]
    IN  IF kind = "text"
        THEN [t1 EXCEPT !.textLog = @ \o ev.delta[1].content[1]]
        ELSE IF kind = "tool"
        THEN [t1 EXCEPT !.fragLog = LogFragments(@, ev.delta[1].tool_calls[1]),
                        !.firstSeen = LogFirstSeen(@, ev.delta[1].tool_calls[1]),
                        !.complete = LogComplete(@, t.firstSeen, ev.delta[1].tool_calls[1]),
                        !.textAtTool = IF @ = None THEN Some(t.textLog) ELSE @,
                        !.kindsAtTool = IF t.textAtTool = None THEN t.kinds ELSE @]
        ELSE t1

\* AfterDelta without the break: the reason is recorded and the loop goes on
\* with the next event.
AfterDeltaNoBreak(ev, view, history) ==
    /\ assistant_view' = view
    /\ finish_reason' = IF ev.finish_reason # NoneStr THEN ev.finish_reason
                        ELSE finish_reason
    /\ messages' = history
    /\ pc' = "stream"

\* Lines 204-217: a finish_reason breaks the loop; the view is wrapped up
\* and the triple is returned to submit.
AfterDelta(ev, view, history) ==
    /\ assistant_view' = view
    /\ IF ev.finish_reason # NoneStr
       THEN /\ finish_reason' = ev.finish_reason
            /\ messages' = history \o WrapUp(view)
            /\ pc' = "dispatch"
       ELSE /\ finish_reason' = finish_reason
            /\ messages' = history
            /\ pc' = "stream"

\* Raise under a handler that logs the error and lets submit go on.
RaiseSwallowed(error, history) ==
    /\ pc' = "dispatch"
    /\ err' = error
    /\ messages' = history

\* An exception leaves __process_stream and submit.
Raise(error, history) ==
    /\ pc' = "failed"
    /\ err' = error
    /\ messages' = history

\* Lines 138-206: one pass of the loop body, up to the tool-call loop.
StreamEvent(ev) ==
    /\ pc = "stream"
    /\ chain.events < MaxEvents
    /\ chain' = [chain EXCEPT !.events = @ + 1]
    /\ UNCHANGED <<args, stream, full_messages, toolIdx, function_called, invoked>>
    /\ IF ev.choices = 0
       THEN /\ turn' = Observe(turn, ev)
            /\ UNCHANGED <<messages, pc, assistant_view, function_view, tool_calls,
                           finish_reason, cur, err>>
       ELSE IF ev.delta = None
       THEN /\ turn' = Observe(turn, ev)
            /\ AfterDelta(ev, assistant_view, messages)
            /\ UNCHANGED <<function_view, tool_calls, cur, err>>
       ELSE LET delta == ev.delta[1] IN
            IF delta.content # None /\ delta.content[1] # << >>
            THEN /\ turn' = Observe(turn, ev)
                 /\ AfterDelta(ev, view_append(assistant_view, delta.content[1]), messages)
                 /\ UNCHANGED <<function_view, tool_calls, cur, err>>
            ELSE IF delta.tool_calls # None
            THEN LET flushed == Flush(assistant_view) IN
                 /\ assistant_view' = flushed.view
                 /\ messages' = messages \o flushed.out
                 /\ turn' = Observe(turn, ev)
                 /\ cur' = Some(ev)
                 /\ pc' = "tool_deltas"
                 /\ UNCHANGED <<function_view, tool_calls, finish_reason, err>>
            ELSE IF delta.function_call # None
            THEN LET r == LegacyStep(assistant_view, function_view, delta.function_call[1]) IN
                 /\ turn' = Observe(turn, ev)
                 /\ function_view' = r.fview
                 /\ IF r.err # NoneStr
                    THEN /\ Raise(r.err, messages \o r.out)
                         /\ assistant_view' = r.view
                         /\ UNCHANGED finish_reason
                    ELSE /\ AfterDelta(ev, r.view, messages \o r.out)
                         /\ UNCHANGED err
                 /\ UNCHANGED <<tool_calls, cur>>
            ELSE /\ turn' = Observe(turn, ev)
                 /\ AfterDelta(ev, assistant_view, messages)
                 /\ UNCHANGED <<function_view, tool_calls, cur, err>>

\* Lines 160-184 and 204-206: the loop over the event's tool-call deltas,
\* then the finish_reason check.
ToolDeltas ==
    /\ pc = "tool_deltas"
    /\ LET ev == cur[1]
           r == ToolLoop(tool_calls, ev.delta[1].tool_calls[1])
       IN  /\ tool_calls' = r.calls
           /\ cur' = None
           /\ IF r.err # NoneStr
              THEN /\ Raise(r.err, messages)
                   /\ UNCHANGED <<assistant_view, finish_reason>>
              ELSE /\ AfterDelta(ev, assistant_view, messages)
                   /\ UNCHANGED err
    /\ UNCHANGED <<args, stream, full_messages, function_view, toolIdx, function_called,
                   invoked, chain, turn>>

\* StreamEnd that returns instead of raising.
StreamEndReturns ==
    /\ pc = "stream"
    /\ messages' = messages \o WrapUp(assistant_view)
    /\ pc' = "returned"
    /\ turn' = [turn EXCEPT !.ended = TRUE]
    /\ UNCHANGED <<args, stream, full_messages, locals, err, invoked, chain>>

\* Lines 208-215: the stream ended and no event carried a finish_reason.
StreamEnd ==
    /\ pc = "stream"
    /\ Raise("NoFinishReason", messages \o WrapUp(assistant_view))
    /\ turn' = [turn EXCEPT !.ended = TRUE]
    /\ UNCHANGED <<args, stream, full_messages, locals, invoked, chain>>

\* RateLimitError raised by the stream while it is consumed (line 138): the
\* handler of lines 324-329 retries.
StreamThrottled ==
    /\ pc = "stream"
    /\ Retry
    /\ chain' = [chain EXCEPT !.calls = @ + 1, !.retries = @ + 1,
                              !.streamThrottles = @ + 1,
                              !.clock = Sleep(@), !.lastArgs = args]

\* ------------------------------------------------ the single-shot extractor
\* One ChatCompletion: its candidates, each a message and a finish_reason.
Choice(content, function_call, calls, reason) ==
    [message |-> [role |-> "assistant", content |-> content,
                  function_call |-> function_call, tool_calls |-> calls],
     finish_reason |-> reason]

FullCall(i) == [id |-> "id", name |-> "f", arguments |-> IF i = 0 THEN <<"x">> ELSE <<"x", "y">>]

FullPayloads ==
    {<<None, None>>,
     <<Some([name |-> "f", arguments |-> <<"x">>]), None>>,
     <<None, Some(<<FullCall(0)>>)>>,
     <<None, Some(<<FullCall(0), FullCall(1)>>)>>}

Choices ==
    {Choice(c, p[1], p[2], r) : c \in {None, Some(<<"a">>)}, p \in FullPayloads,
                                r \in FinishReasons}

Completions ==
    {<< >>} \cup {<<c>> : c \in Choices}
    \cup {<<Choice(Some(<<"a">>), None, None, "stop"),
            Choice(Some(<<"b">>), None, Some(<<FullCall(0)>>), "tool_calls")>>}

\* ChatCompletionMessage.model_dump: the whole message as a record.
model_dump(message) == message

RECURSIVE FullToolLoop(_, _, _)
\* Lines 244-252: every tool call of the message becomes a ToolArguments, and
\* the dumped message is appended inside the loop.
FullToolLoop(message, calls, acc) ==
    IF calls = << >> THEN acc
    ELSE LET tool_call == Head(calls) IN
         FullToolLoop(message, Tail(calls),
                      [calls |-> Append(acc.calls, ToolArguments(tool_call.id, tool_call.name,
                                                                 tool_call.arguments)),
                       out |-> Append(acc.out, model_dump(message))])

\* ProcessFullCompletion reading the last candidate instead of the first.
ProcessLastCandidate(choices) ==
    IF Len(choices) = 0
    THEN [reason |-> "stop", fview |-> None, calls |-> << >>, out |-> << >>]
    ELSE LET choice == choices[Len(choices)]
             message == choice.message
             text == IF message.content # None
                     THEN <<get_message(view_append(NewAssistantView, message.content[1]))>>
                     ELSE << >>
             fview == IF message.function_call # None
                      THEN Some(ToolArguments("TBD", message.function_call[1].name,
                                              message.function_call[1].arguments))
                      ELSE None
             tools == IF message.tool_calls # None
                      THEN FullToolLoop(message, message.tool_calls[1],
                                        [calls |-> << >>, out |-> << >>])
                      ELSE [calls |-> << >>, out |-> << >>]
         IN  [reason |-> choice.finish_reason, fview |-> fview, calls |-> tools.calls,
              out |-> text \o tools.out]

\* Lines 219-254: __process_full_completion, its returned triple and the
\* messages it appends.
ProcessFullCompletion(choices) ==
    IF Len(choices) = 0
    THEN [reason |-> "stop", fview |-> None, calls |-> << >>, out |-> << >>]
    ELSE LET choice == choices[1]
             message == choice.message
             text == IF message.content # None
                     THEN <<get_message(view_append(NewAssistantView, message.content[1]))>>
                     ELSE << >>
             fview == IF message.function_call # None
                      THEN Some(ToolArguments("TBD", message.function_call[1].name,
                                              message.function_call[1].arguments))
                      ELSE None
             tools == IF message.tool_calls # None
                      THEN FullToolLoop(message, message.tool_calls[1],
                                        [calls |-> << >>, out |-> << >>])
                      ELSE [calls |-> << >>, out |-> << >>]
         IN  [reason |-> choice.finish_reason, fview |-> fview, calls |-> tools.calls,
              out |-> text \o tools.out]

\* Lines 320-322: the whole response at once.
FullCompletion(choices) ==
    /\ pc = "full"
    /\ LET r == ProcessFullCompletion(choices) IN
       /\ finish_reason' = r.reason
       /\ function_view' = r.fview
       /\ tool_calls' = r.calls
       /\ messages' = messages \o r.out
    /\ pc' = "dispatch"
    /\ turn' = [turn EXCEPT !.kinds = {"full"}, !.full = Some(choices)]
    /\ UNCHANGED <<args, stream, full_messages, assistant_view, cur, toolIdx,
                   function_called, err, invoked, chain>>

\* --------------------------------------------------------------- dispatch
\* Dispatch that runs the tool calls whatever the reason.
DispatchAnyReason(reason, fview, calls) ==
    IF reason = "function_call"
    THEN IF fview = None THEN "missing" ELSE "function_call"
    ELSE IF calls # << >> THEN "tool_calls"
    ELSE "return"

\* Lines 331-370: what submit does with the returned triple.
Dispatch(reason, fview, calls) ==
    IF reason = "function_call"
    THEN IF fview = None THEN "missing" ELSE "function_call"
    ELSE IF reason = "tool_calls" /\ calls # << >> THEN "tool_calls"
    ELSE "return"

\* Lines 360-370: the notice printed before submit returns.
Notice(reason) ==
    IF reason = "stop" THEN NoneStr
    ELSE IF reason = "max_tokens" \/ reason = "length" THEN "max_tokens"
    ELSE IF reason = "content_filter" THEN "content_filter"
    ELSE "unknown"

\* Lines 332-337: the legacy call is recorded in the history.
DispatchFunctionCall ==
    /\ pc = "dispatch"
    /\ Dispatch(finish_reason, function_view, tool_calls) = "function_call"
    /\ messages' = Append(messages, get_function_message(function_view[1]))
    /\ pc' = "function_call"
    /\ UNCHANGED <<args, stream, full_messages, locals, err, invoked, chain, turn>>

\* Lines 332-335: function_call without a legacy call is an error.
DispatchMissing ==
    /\ pc = "dispatch"
    /\ Dispatch(finish_reason, function_view, tool_calls) = "missing"
    /\ Raise("FunctionCallMissing", messages)
    /\ UNCHANGED <<args, stream, full_messages, locals, invoked, chain, turn>>

\* Line 339: the legacy call is invoked.
FunctionInvoke ==
    /\ pc = "function_call"
    /\ invoked' = Append(invoked, function_view[1])
    /\ function_called' = Some(call_result(function_view[1]))
    /\ pc' = "function_called"
    /\ UNCHANGED <<messages, args, stream, full_messages, assistant_view, function_view,
                   tool_calls, finish_reason, cur, toolIdx, err, chain, turn>>

\* Line 342: its result is recorded in the history.
FunctionResult ==
    /\ pc = "function_called"
    /\ messages' = Append(messages, get_function_called_message(function_called[1]))
    /\ pc' = "continue"
    /\ UNCHANGED <<args, stream, full_messages, locals, err, invoked, chain, turn>>

\* Line 349: the request message of the tool calls is built; the statement
\* does nothing with it.
ToolCallsRequest(history, calls) == history

\* Lines 348-350: tool_calls with a non-empty list starts the loop.
DispatchToolCalls ==
    /\ pc = "dispatch"
    /\ Dispatch(finish_reason, function_view, tool_calls) = "tool_calls"
    /\ messages' = ToolCallsRequest(messages, tool_calls)
    /\ toolIdx' = 1
    /\ pc' = "tool_calls"
    /\ UNCHANGED <<args, stream, full_messages, assistant_view, function_view, tool_calls,
                   finish_reason, cur, function_called, err, invoked, chain, turn>>

\* ToolInvoke that runs the first call of the list at every pass.
ToolInvokeFirst ==
    /\ pc = "tool_calls"
    /\ invoked' = Append(invoked, tool_calls[1])
    /\ function_called' = Some(call_result(tool_calls[1]))
    /\ pc' = "tool_called"
    /\ UNCHANGED <<messages, args, stream, full_messages, assistant_view, function_view,
                   tool_calls, finish_reason, cur, toolIdx, err, chain, turn>>

\* Line 352: the next tool call is invoked.
ToolInvoke ==
    /\ pc = "tool_calls"
    /\ invoked' = Append(invoked, tool_calls[toolIdx])
    /\ function_called' = Some(call_result(tool_calls[toolIdx]))
    /\ pc' = "tool_called"
    /\ UNCHANGED <<messages, args, stream, full_messages, assistant_view, function_view,
                   tool_calls, finish_reason, cur, toolIdx, err, chain, turn>>

\* Line 354: its result is recorded in the history; the loop goes on.
ToolResult ==
    /\ pc = "tool_called"
    /\ messages' = Append(messages, get_tool_called_message(function_called[1]))
    /\ toolIdx' = toolIdx + 1
    /\ pc' = IF toolIdx + 1 > Len(tool_calls) THEN "continue" ELSE "tool_calls"
    /\ UNCHANGED <<args, stream, full_messages, assistant_view, function_view, tool_calls,
                   finish_reason, cur, function_called, err, invoked, chain, turn>>

\* A continuation that passes the inputs again.
ContinuationRepeatsArguments(inputs) == inputs

\* Lines 345 and 356: the arguments of the continuation call.
ContinuationArguments(inputs) == << >>

\* Lines 345-346 and 356-357: submit again, to let the model continue.
Continue ==
    /\ pc = "continue"
    /\ chain.calls < MaxCalls
    /\ Enter(ContinuationArguments(args), stream, "continuation")
    /\ chain' = [chain EXCEPT !.calls = @ + 1, !.continuations = @ + 1, !.lastArgs = args]
    /\ UNCHANGED <<messages, err, invoked>>

\* DispatchReturn without its test of the reason: submit returns where it
\* should invoke the calls and let the model continue.
DispatchReturnAlways ==
    /\ pc = "dispatch"
    /\ pc' = "returned"
    /\ chain' = [chain EXCEPT !.notice = Notice(finish_reason)]
    /\ UNCHANGED <<messages, args, stream, full_messages, locals, err, invoked, turn>>

\* Lines 359-370: every other reason returns, with or without a notice.
DispatchReturn ==
    /\ pc = "dispatch"
    /\ Dispatch(finish_reason, function_view, tool_calls) = "return"
    /\ pc' = "returned"
    /\ chain' = [chain EXCEPT !.notice = Notice(finish_reason)]
    /\ UNCHANGED <<messages, args, stream, full_messages, locals, err, invoked, turn>>

\* ------------------------------------------------------------------- spec
Next ==
    \/ \E inputs \in InputLists, streaming \in BOOLEAN : Submit(inputs, streaming)
    \/ RequestThrottled
    \/ RequestFailed
    \/ RequestAccepted
    \/ \E ev \in Events : StreamEvent(ev)
    \/ ToolDeltas
    \/ StreamEnd
    \/ StreamThrottled
    \/ \E choices \in Completions : FullCompletion(choices)
    \/ DispatchFunctionCall
    \/ DispatchMissing
    \/ FunctionInvoke
    \/ FunctionResult
    \/ DispatchToolCalls
    \/ ToolInvoke
    \/ ToolResult
    \/ Continue
    \/ DispatchReturn

Spec == Init /\ [][Next]_vars

\* The steps of a submit call chain that is under way: all but the user's
\* call. The event loop runs the coroutine to its end and every await of
\* lines 304, 313, 138, 339 and 352 completes: the service answers, throttles
\* or fails, the stream yields or ends, the tool returns.
ChainStep ==
    \/ RequestThrottled
    \/ RequestFailed
    \/ RequestAccepted
    \/ \E ev \in Events : StreamEvent(ev)
    \/ ToolDeltas
    \/ StreamEnd
    \/ StreamThrottled
    \/ \E choices \in Completions : FullCompletion(choices)
    \/ DispatchFunctionCall
    \/ DispatchMissing
    \/ FunctionInvoke
    \/ FunctionResult
    \/ DispatchToolCalls
    \/ ToolInvoke
    \/ ToolResult
    \/ Continue
    \/ DispatchReturn

\* The submit call chain under a service that always ends up answering;
\* throttling is finite (MaxRetries).
FairSpec == Init /\ [][Next]_vars /\ WF_vars(ChainStep)

\* The history under append calls alone.
NextAppend == \E inputs \in AppendInputs : AppendCall(inputs)

SpecAppend == Init /\ [][NextAppend]_vars

\* ------------------------------------------------------------- properties
\* The messages the running turn's response has put into the history.
TurnResponse == SubSeq(messages, turn.base + 1, Len(messages))

\* What a list of inputs is in the history: a string as a user message, a
\* message as itself.
Expected(inputs) ==
    [i \in 1..Len(inputs) |->
        IF inputs[i].isStr THEN [role |-> "user", content |-> inputs[i].text]
        ELSE inputs[i].msg]

IsAssistantText(m) == m.role = "assistant" /\ "content" \in DOMAIN m

\* C1: a streamed turn of text deltas only, ended by the stop marker, leaves
\* the history of the call followed by the inputs and by exactly one
\* assistant message, whose content is the deltas concatenated in order.
C1_TextOnlyStop ==
    (/\ stream
     /\ pc \in {"dispatch", "returned"}
     /\ finish_reason = "stop"
     /\ turn.kinds \subseteq {"text", "empty", "nodelta"})
    => messages = turn.callHist \o Expected(args)
                  \o <<[role |-> "assistant", content |-> turn.textLog]>>

C1_Witness ==
    /\ stream
    /\ pc = "returned"
    /\ turn.kinds = {"text", "empty"}
    /\ turn.textLog = <<"a", "b">>
    /\ messages[Len(messages)] = [role |-> "assistant", content |-> <<"a", "b">>]

\* C2: for the streamed turns of tool-call deltas only, in which the indices
\* 0..k-1 were touched and each came first with its id, name and arguments,
\* the returned list has k calls, the i-th being the call of the i-th index
\* to appear, with the fragments of that index concatenated in order.
C2_ToolCallsReconstructed ==
    LET k == Len(turn.firstSeen) IN
    (/\ stream
     /\ pc = "dispatch"
     /\ turn.kinds \subseteq {"tool", "empty", "nodelta"}
     /\ turn.complete
     /\ {turn.firstSeen[i] : i \in 1..k} = 0..(k - 1))
    => /\ Len(tool_calls) = k
       /\ \A i \in 1..k : tool_calls[i].arguments = turn.fragLog[turn.firstSeen[i]]

\* C3: when a streamed turn has ended with tool_calls and a non-empty list,
\* and the calls were made, the history ends with the assistant's tool-call
\* request followed by the result of each call, and the continuation call
\* that follows has no inputs.
C3_ToolCallRequestRecorded ==
    LET k == Len(tool_calls) IN
    /\ (stream /\ pc = "continue" /\ finish_reason = "tool_calls")
       => /\ Len(messages) >= turn.base + k + 1
          /\ messages[Len(messages) - k] = assistant_tool_calls(tool_calls)
          /\ \A i \in 1..k :
                messages[Len(messages) - k + i] =
                    get_tool_called_message(call_result(tool_calls[i]))
    /\ (stream /\ turn.origin = "continuation" /\ turn.parent.reason = "tool_calls")
       => args = << >> /\ turn.calls0 = turn.parent.calls0 + 1

C5_NoTerminalReasonFatal ==
    /\ turn.ended
       => /\ pc = "failed"
          /\ err = "NoFinishReason"
          /\ Len(invoked) = turn.invoked0
          /\ chain.calls = turn.calls0
    /\ (stream /\ finish_reason = NoneStr)
       => pc \in {"idle", "request", "stream", "tool_deltas", "failed"}

C5_Witness ==
    /\ turn.ended
    /\ pc = "failed"
    /\ turn.kinds = {"text", "tool"}
    /\ tool_calls # << >>

\* C6: a call whose request was throttled once and then accepted makes
\* exactly one retry, after the fixed delay and with the arguments of the
\* first attempt; and, throttled or not, the final history is the history
\* of the first attempt followed by the inputs, once, and by the response.
C6_ThrottledOnceSameHistory ==
    (/\ pc = "returned"
     /\ chain.streamThrottles = 0
     /\ chain.continuations = 0)
    => /\ turn.base = Len(chain.history0) + Len(chain.inputs0)
       /\ messages = chain.history0 \o Expected(chain.inputs0) \o TurnResponse
       /\ chain.requestThrottles = 0 => chain.calls = 1 /\ chain.clock = 0
       /\ chain.requestThrottles = 1
          => /\ chain.calls = 2
             /\ chain.clock = 5
             /\ args = chain.inputs0
             /\ turn.callHist = chain.history0
             /\ full_messages = chain.history0 \o Expected(chain.inputs0)

C6_Witness ==
    /\ pc = "returned"
    /\ chain.requestThrottles = 1
    /\ chain.streamThrottles = 0
    /\ chain.continuations = 0
    /\ chain.inputs0 = <<Obj(UserMsg), Str(<<"q">>)>>
    /\ TurnResponse = <<[role |-> "assistant", content |-> <<"a">>]>>

\* C7: submit goes on to call and to continue only for function_call with
\* the legacy call present and for tool_calls with a non-empty list; a
\* continuation call has such a turn as its parent; and a call that has
\* returned had neither, has invoked nothing and has made no further call.
C7_ContinuationIffCallReason ==
    LET wantsFunction == finish_reason = "function_call" /\ function_view # None
        wantsTools == finish_reason = "tool_calls" /\ tool_calls # << >>
    IN  /\ pc \in {"function_call", "function_called"} => wantsFunction
        /\ pc \in {"tool_calls", "tool_called"} => wantsTools
        /\ pc = "continue" => wantsFunction \/ wantsTools
        /\ turn.origin = "continuation"
           => \/ turn.parent.reason = "function_call" /\ turn.parent.legacy # None
              \/ turn.parent.reason = "tool_calls" /\ turn.parent.tools # << >>
        /\ pc = "returned"
           => /\ ~wantsFunction
              /\ ~wantsTools
              /\ err = NoneStr
              /\ Len(invoked) = turn.invoked0
              /\ chain.calls = turn.calls0
        /\ (pc = "failed" /\ finish_reason # NoneStr)
           => finish_reason = "function_call" /\ function_view = None

C7_Witness ==
    /\ pc = "returned"
    /\ stream
    /\ finish_reason = "length"
    /\ tool_calls # << >>
    /\ function_view # None

\* C8: a turn ended by function_call with the legacy call present puts the
\* call request at the end of the history before the call is invoked,
\* invokes the call once, puts its result right after the request, and
\* then calls submit once, with no inputs.
C8_FunctionCallRoundTrip ==
    LET request == [role |-> "assistant",
                    function_call |-> [name |-> function_view[1].name,
                                       arguments |-> function_view[1].arguments]]
        result == [role |-> "function", name |-> function_view[1].name,
                   content |-> call_result(function_view[1]).value]
        n == Len(messages)
    IN  /\ pc = "function_call"
           => messages[n] = request /\ Len(invoked) = turn.invoked0
        /\ pc = "function_called"
           => /\ messages[n] = request
              /\ Len(invoked) = turn.invoked0 + 1
              /\ invoked[Len(invoked)] = function_view[1]
        /\ (pc = "continue" /\ finish_reason = "function_call")
           => /\ SubSeq(messages, n - 1, n) = <<request, result>>
              /\ Len(invoked) = turn.invoked0 + 1
              /\ chain.calls = turn.calls0
        /\ (turn.origin = "continuation" /\ turn.parent.reason = "function_call")
           => /\ args = << >>
              /\ turn.calls0 = turn.parent.calls0 + 1
              /\ Len(turn.callHist) >= 2
              /\ turn.callHist[Len(turn.callHist) - 1].role = "assistant"
              /\ turn.callHist[Len(turn.callHist)].role = "function"

C8_Witness ==
    /\ pc = "request"
    /\ stream
    /\ turn.origin = "continuation"
    /\ turn.parent.reason = "function_call"
    /\ invoked = <<ToolArguments("TBD", "f", <<"x">>)>>
    /\ messages[Len(messages)] = [role |-> "function", name |-> "f", content |-> <<"r", "x">>]

\* C9: while the request is being issued the history is the one submit was
\* entered with and the message list sent is that history followed by the
\* inputs, strings as user messages; once the request is accepted the
\* history is that message list, before any message of the response; and
\* after a request that failed the history is the one of the entry.
C9_InputsJoinAfterAcceptance ==
    LET sent == turn.callHist \o Expected(args) IN
    /\ pc = "request" => messages = turn.callHist /\ full_messages = sent
    /\ turn.accepted
       => /\ full_messages = sent
          /\ turn.base = Len(sent)
          /\ Len(messages) >= turn.base
          /\ SubSeq(messages, 1, turn.base) = sent
    /\ (pc \in {"stream", "full"} /\ turn.kinds = {}) => messages = sent
    /\ (pc = "failed" /\ err = "APIError") => messages = turn.callHist /\ ~turn.accepted

C9_Witness ==
    /\ pc = "stream"
    /\ turn.kinds = {}
    /\ turn.origin = "user"
    /\ args = <<Obj(UserMsg), Str(<<"q">>)>>
    /\ messages = <<SystemMsg, UserMsg, [role |-> "user", content |-> <<"q">>]>>

\* C10: every append call lengthens the history by the number of its
\* arguments, keeps what was there, and puts the arguments at the end in
\* order, strings as user messages, whether or not the history holds them.
C10_AppendUnconditional ==
    [][pc' = "idle"
       => LET inputs == chain'.lastArgs
              n == Len(inputs)
          IN  /\ Len(messages') = Len(messages) + n
              /\ SubSeq(messages', 1, Len(messages)) = messages
              /\ \A j \in 1..n : messages'[Len(messages) + j] = Expected(inputs)[j]]_vars

C10_Witness ==
    /\ pc = "idle"
    /\ chain.lastArgs = <<Str(<<"q">>), Str(<<"q">>)>>
    /\ messages = <<SystemMsg, [role |-> "user", content |-> <<"q">>],
                    [role |-> "user", content |-> <<"q">>],
                    [role |-> "user", content |-> <<"q">>],
                    [role |-> "user", content |-> <<"q">>]>>

\* The turn ended with a terminal reason that asks for no call: neither
\* function_call nor tool_calls with a non-empty list.
StopCondition ==
    /\ finish_reason # NoneStr
    /\ finish_reason # "function_call"
    /\ ~(finish_reason = "tool_calls" /\ tool_calls # << >>)

\* The call chain has come to its end in the model: submit returned, an
\* exception left it, or the chain is as long as MaxCalls allows and the
\* service still asks for a call.
Settled ==
    \/ pc \in {"returned", "failed"}
    \/ pc = "continue" /\ chain.calls = MaxCalls

\* C11: under a service that throttles finitely often, a request of the
\* chain answered with a terminal reason that is neither function_call nor
\* non-empty tool_calls leads to the return of the outermost submit; submit
\* has returned only if the running turn of the chain ended with such a
\* reason; and every chain under way returns, fails, or is still asked for a
\* call when the chain is MaxCalls long.
C11_ReturnsOnStopCondition ==
    /\ [](pc = "returned" => turn.accepted /\ StopCondition)
    /\ ((pc = "dispatch" /\ StopCondition) ~> (pc = "returned"))
    /\ ((pc = "request") ~> Settled)

C11_Witness ==
    /\ pc = "returned"
    /\ StopCondition
    /\ chain.retries >= 1
    /\ chain.continuations >= 1

\* The assistant messages the turn builder of the running turn has put into
\* the history.
BuilderMessages == SelectSeq(TurnResponse, IsAssistantText)

\* A streamed turn has reached its terminal marker and was returned.
StreamedTurnEnded ==
    /\ stream
    /\ pc \in {"dispatch", "returned"}
    /\ finish_reason # NoneStr

ToolResults(calls) ==
    [i \in 1..Len(calls) |-> get_tool_called_message(call_result(calls[i]))]

LastN(seq, n) == SubSeq(seq, Len(seq) - n + 1, Len(seq))

\* The calls invoked since the running submit call was entered.
InvokedInTurn == SubSeq(invoked, turn.invoked0 + 1, Len(invoked))

\* C13: when a turn ends with tool_calls and a non-empty list, then by the
\* time the continuation is due every call of the list has been invoked
\* exactly once, in the order of the list, the history ends with their
\* result messages in that order, and no submit call was made meanwhile;
\* the continuation's request carries all of them.
C13_ToolCallsInvokedInOrder ==
    /\ (pc \in {"tool_calls", "tool_called"}) =>
           /\ chain.calls = turn.calls0
           /\ InvokedInTurn = SubSeq(tool_calls, 1, Len(InvokedInTurn))
           /\ Len(InvokedInTurn) = IF pc = "tool_calls" THEN toolIdx - 1 ELSE toolIdx
           /\ LastN(messages, toolIdx - 1) = ToolResults(SubSeq(tool_calls, 1, toolIdx - 1))
    /\ (pc = "continue" /\ finish_reason = "tool_calls" /\ tool_calls # << >>) =>
           /\ chain.calls = turn.calls0
           /\ InvokedInTurn = tool_calls
           /\ LastN(messages, Len(tool_calls)) = ToolResults(tool_calls)
    /\ (turn.origin = "continuation" /\ turn.parent.reason = "tool_calls") =>
           /\ turn.parent.tools # << >>
           /\ LastN(turn.callHist, Len(turn.parent.tools)) = ToolResults(turn.parent.tools)
           /\ LastN(full_messages, Len(turn.parent.tools)) = ToolResults(turn.parent.tools)
           /\ LastN(SubSeq(invoked, 1, turn.invoked0), Len(turn.parent.tools))
                  = turn.parent.tools

C13_Witness ==
    /\ turn.origin = "continuation"
    /\ turn.parent.reason = "tool_calls"
    /\ Len(turn.parent.tools) = 2
    /\ turn.parent.tools[1] # turn.parent.tools[2]
    /\ stream
    /\ pc = "stream"

\* C14: the reason returned by the stream loop is the first terminal marker
\* an event carried; once an event carried one the loop is left, no event
\* was consumed after it, the history on return holds the inputs and the
\* builder's messages and nothing else, and no later step of the turn
\* consumes an event or changes the returned reason, legacy call or tool
\* calls.
C14_StopsAtFirstMarker ==
    /\ []((stream /\ turn.marker # NoneStr) =>
             /\ pc # "stream"
             /\ turn.late = 0
             /\ (pc # "tool_deltas" => finish_reason = turn.marker))
    /\ []((stream /\ finish_reason # NoneStr) => finish_reason = turn.marker)
    /\ []((stream /\ pc = "dispatch") =>
             messages = turn.callHist \o Expected(args) \o BuilderMessages)
    /\ [][(stream /\ finish_reason # NoneStr /\ turn'.calls0 = turn.calls0) =>
              /\ chain'.events = chain.events
              /\ turn' = turn
              /\ finish_reason' = finish_reason
              /\ function_view' = function_view
              /\ tool_calls' = tool_calls]_vars

C14_Witness ==
    /\ stream
    /\ pc = "returned"
    /\ turn.marker = "length"
    /\ "tool" \in turn.kinds
    /\ tool_calls # << >>
    /\ chain.events < MaxEvents

\* C15: a streamed turn that received legacy function-call deltas and
\* reached its terminal marker returns one legacy call, with id TBD, the name
\* received, and for arguments all the legacy argument fragments of the turn
\* concatenated in arrival order; a turn that received none returns no
\* legacy call.
C15_LegacyCallReconstructed ==
    (stream /\ finish_reason # NoneStr) =>
        function_view = IF turn.legacyNames = 0 THEN None
                        ELSE Some(ToolArguments("TBD", "f", turn.legacyLog))

ProtocolViolations == {"ToolCallWithoutFunction", "ArgumentsWithoutName", "FunctionCallMissing"}

\* The running turn ended with function_call and no legacy call.
LegacyCallMissing == finish_reason = "function_call" /\ function_view = None

\* C16: a tool-call delta without a function payload, legacy arguments
\* before any name, and the reason function_call with no legacy call each
\* end the chain with the matching error out of submit: the failed call
\* invoked no tool, no retry or continuation was made after it, and nothing
\* happens once it has failed.
C16_ProtocolViolationFatal ==
    /\ []((turn.violation # NoneStr /\ pc # "tool_deltas") =>
             (pc = "failed" /\ err = turn.violation))
    /\ [](LegacyCallMissing =>
             \/ pc = "dispatch"
             \/ pc = "failed" /\ err = "FunctionCallMissing")
    /\ [](err \in ProtocolViolations =>
             /\ pc = "failed"
             /\ Len(invoked) = turn.invoked0
             /\ chain.calls = turn.calls0
             /\ IF err = "FunctionCallMissing" THEN LegacyCallMissing
                ELSE err = turn.violation)
    /\ [][pc = "failed" => pc' = "failed"]_vars

C16_Witness ==
    /\ pc = "failed"
    /\ err = "ArgumentsWithoutName"
    /\ turn.origin = "continuation"
    /\ invoked # << >>

\* The legacy call and the tool calls a candidate's message asks for.
LegacyOf(message) ==
    IF message.function_call = None THEN None
    ELSE Some([id |-> "TBD", name |-> message.function_call[1].name,
               arguments |-> message.function_call[1].arguments])

CallsOf(message) == IF message.tool_calls = None THEN << >> ELSE message.tool_calls[1]

\* C17: a non-streaming turn takes its reason, legacy call, tool calls and
\* the messages it puts into the history (the text, and the candidate's
\* message once per tool call) from the first candidate of the response
\* whatever follows it; a
\* response without candidates is a turn with reason stop that leaves the
\* history at the history of the call followed by the inputs, invokes
\* nothing, makes no further submit call and returns without an error.
C17_FirstCandidateOnly ==
    (~stream /\ turn.full # None) =>
        LET choices == turn.full[1] IN
        IF choices = << >>
        THEN /\ finish_reason = "stop"
             /\ function_view = None
             /\ tool_calls = << >>
             /\ pc \in {"dispatch", "returned"}
             /\ err = NoneStr
             /\ messages = turn.callHist \o Expected(args)
             /\ Len(invoked) = turn.invoked0
             /\ chain.calls = turn.calls0
        ELSE /\ finish_reason = choices[1].finish_reason
             /\ function_view = LegacyOf(choices[1].message)
             /\ tool_calls = CallsOf(choices[1].message)
             /\ pc = "dispatch" =>
                    TurnResponse =
                        (IF choices[1].message.content = None THEN << >>
                         ELSE <<[role |-> "assistant",
                                 content |-> choices[1].message.content[1]]>>)
                        \o [i \in 1..Len(CallsOf(choices[1].message)) |->
                                choices[1].message]

C17_Witness ==
    /\ ~stream
    /\ pc = "returned"
    /\ turn.full = Some(<< >>)
    /\ turn.origin = "user"

IsPrefix(s, t) == Len(s) <= Len(t) /\ SubSeq(t, 1, Len(s)) = s

\* C18: every step of a submit call chain leaves the history it found as a
\* prefix of the history it leaves, and at every point of the chain the
\* history at the outermost call and the history at the running call are
\* prefixes of the current history.
C18_HistoryAppendOnly ==
    /\ [][IsPrefix(messages, messages')]_vars
    /\ [](pc # "idle" =>
             /\ IsPrefix(chain.history0, turn.callHist)
             /\ IsPrefix(turn.callHist, messages))

C18_Witness ==
    /\ pc = "returned"
    /\ chain.retries = 1
    /\ chain.continuations = 1
    /\ stream
    /\ Len(messages) > Len(chain.history0) + Len(chain.inputs0) + 1

\* The response the events of the running streamed turn spell out, as the
\* service would send it at once: the text, the legacy call, the tool calls
\* in the order of their indices, the terminal reason.
StreamedResponse ==
    Choice(IF turn.textLog = << >> THEN None ELSE Some(turn.textLog),
           IF turn.legacyNames = 0 THEN None
           ELSE Some([name |-> "f", arguments |-> turn.legacyLog]),
           IF turn.firstSeen = << >> THEN None
           ELSE Some([k \in 1..Len(turn.firstSeen) |->
                         [id |-> "id", name |-> "f",
                          arguments |-> turn.fragLog[turn.firstSeen[k]]]]),
           turn.marker)

\* A stream as the service sends it: every tool call opens with id, name
\* and arguments, the indices come in order from 0, at most one legacy delta
\* carries a name, the text comes before the calls, and there is text or a
\* call.
WellFormedStream ==
    /\ turn.complete
    /\ \A k \in 1..Len(turn.firstSeen) : turn.firstSeen[k] = k - 1
    /\ turn.legacyNames <= 1
    /\ turn.textAtCall # None => turn.textAtCall[1] = turn.textLog
    /\ turn.textLog # << >> \/ turn.firstSeen # << >> \/ turn.legacyNames = 1

\* C19: at the return of the stream loop, the reason, the legacy call, the
\* tool calls and the messages the turn has put into the history are those
\* the single-shot extractor returns and appends for the same response.
C19_SameAsSingleShot ==
    (stream /\ pc = "dispatch" /\ WellFormedStream) =>
        LET r == ProcessFullCompletion(<<StreamedResponse>>) IN
        /\ r.reason = finish_reason
        /\ r.fview = function_view
        /\ r.calls = tool_calls
        /\ r.out = TurnResponse

RECURSIVE Contents(_)
\* The contents of a list of messages, concatenated.
Contents(msgs) ==
    IF msgs = << >> THEN << >> ELSE Head(msgs).content \o Contents(Tail(msgs))

\* C20: when a streamed turn has reached its terminal marker, the text
\* fragments it received, in arrival order, are the contents of the
\* assistant messages the turn has put into the history.
C20_NoTextLost ==
    StreamedTurnEnded => Contents(BuilderMessages) = turn.textLog

IsUserMessage(m) == m.role = "user"

\* The user messages the running call chain has put into the history. The
\* inputs are the only user messages a chain appends: its responses are
\* assistant, function and tool messages.
InputsAppended ==
    SelectSeq(SubSeq(messages, Len(chain.history0) + 1, Len(messages)), IsUserMessage)

\* A request of the chain has been accepted.
ChainAccepted ==
    turn.accepted \/ chain.continuations > 0 \/ chain.streamThrottles > 0

\* C21: at every point of a submit call chain the history holds the inputs
\* of the outermost call not at all before a request of the chain was
\* accepted and exactly once afterwards, whether throttling was signalled
\* at the request or while the stream was consumed.
C21_InputsAppendedOnce ==
    pc # "idle" =>
        InputsAppended = IF ChainAccepted THEN Expected(chain.inputs0) ELSE << >>

====
